---- MODULE Spec2Model ----
(***************************************************************************)
(* Model of the sre-learn document engine (src/main.go): the App state     *)
(* (Sections, CurrentIdx, FileContent, FileLines), the parser, the content *)
(* mutators (ToggleCheckbox, AddNote, removeNoteFromContent), the          *)
(* synchronizer (UpdateFileSection), the handlers that chain them and the  *)
(* Renderer's viewport (ScrollOffset, PageSize).                           *)
(*                                                                         *)
(* A Go string is a sequence of one-character strings; a []string is a     *)
(* sequence of such sequences.  Go indices are 0-based, TLA+ sequences are *)
(* 1-based: Section.Line, CurrentIdx and every operation argument keep the *)
(* 0-based Go value and are shifted by one where a sequence is indexed.    *)
(***************************************************************************)
EXTENDS Integers, Sequences, FiniteSets, TLC

VARIABLES Sections, CurrentIdx, FileContent, FileLines, FileCap, panicked, op,
          ScrollOffset, PageSize, FilePath, StateFile

vars == <<Sections, CurrentIdx, FileContent, FileLines, FileCap, panicked, op,
          ScrollOffset, PageSize, FilePath, StateFile>>

\* the fields of the App that the document operations work on
avars == <<Sections, CurrentIdx, FileContent, FileLines, FileCap, panicked>>

\* the fields of the Renderer that the scroll operations work on
rvars == <<ScrollOffset, PageSize>>

\* the path of the document, and the file on disk at the path a.StateFile:
\* whether it exists, and its text
svars == <<FilePath, StateFile>>

\* ------------------------------------------------------------------ bounds
MaxDocLines == 2

MaxNotes == 1

MaxFileLines == 6

MaxNoteLines == 3

\* ------------------------------------------------------------- Go strings
NL == "\n"

IsSpace(c) == c \in {" ", "\t", "\n", "\r"}

Min(a, b) == IF a < b THEN a ELSE b

HasPrefix(s, p) == Len(p) <= Len(s) /\ SubSeq(s, 1, Len(p)) = p

RECURSIVE IndexFrom(_, _, _)
\* the first position i >= from at which p occurs in s; 0 when there is none
IndexFrom(s, p, from) ==
  IF from + Len(p) - 1 > Len(s) THEN 0
  ELSE IF SubSeq(s, from, from + Len(p) - 1) = p THEN from
  ELSE IndexFrom(s, p, from + 1)

\* strings.Index, 1-based; 0 when p does not occur in s
IndexOf(s, p) == IndexFrom(s, p, 1)

Contains(s, p) == IndexOf(s, p) /= 0

RECURSIVE ReplaceEvery(_, _, _)
\* strings.Replace(s, old, new, -1): the replacement a missing count makes
ReplaceEvery(s, old, new) ==
  LET i == IndexOf(s, old)
  IN IF i = 0 THEN s
     ELSE SubSeq(s, 1, i - 1) \o new
            \o ReplaceEvery(SubSeq(s, i + Len(old), Len(s)), old, new)

\* strings.Replace(s, old, new, 1)
ReplaceFirst(s, old, new) ==
  LET i == IndexOf(s, old)
  IN IF i = 0 THEN s
     ELSE SubSeq(s, 1, i - 1) \o new \o SubSeq(s, i + Len(old), Len(s))

RECURSIVE Count(_, _)
\* strings.Count: non-overlapping occurrences of a non-empty p
Count(s, p) ==
  LET i == IndexOf(s, p)
  IN IF i = 0 THEN 0 ELSE 1 + Count(SubSeq(s, i + Len(p), Len(s)), p)

RECURSIVE TrimLeft(_)
TrimLeft(s) == IF Len(s) > 0 /\ IsSpace(s[1]) THEN TrimLeft(Tail(s)) ELSE s

RECURSIVE TrimRight(_)
TrimRight(s) ==
  IF Len(s) > 0 /\ IsSpace(s[Len(s)]) THEN TrimRight(SubSeq(s, 1, Len(s) - 1)) ELSE s

TrimSpace(s) == TrimRight(TrimLeft(s))

RECURSIVE Split(_)
\* strings.Split(s, "\n"): never empty, Split("") = [""]
Split(s) ==
  LET i == IndexOf(s, <<NL>>)
  IN IF i = 0 THEN <<s>>
     ELSE <<SubSeq(s, 1, i - 1)>> \o Split(SubSeq(s, i + 1, Len(s)))

RECURSIVE Join(_)
\* strings.Join(lines, "\n"): Join([]) = ""
Join(lines) ==
  IF Len(lines) = 0 THEN <<>>
  ELSE IF Len(lines) = 1 THEN lines[1]
  ELSE lines[1] \o <<NL>> \o Join(Tail(lines))

\* strings.Repeat(c, n) for a one-character string c
Repeat(c, n) == [i \in 1..n |-> c]

\* ---------------------------------------------------------------- parser
\* number of leading characters of s that satisfy the test
RECURSIVE LeadingHashes(_)
LeadingHashes(s) ==
  IF Len(s) > 0 /\ s[1] = "#" THEN 1 + LeadingHashes(Tail(s)) ELSE 0

RECURSIVE LeadingSpaces(_)
LeadingSpaces(s) ==
  IF Len(s) > 0 /\ IsSpace(s[1]) THEN 1 + LeadingSpaces(Tail(s)) ELSE 0

\* headerRegex `^(#{1,4})\s+(.+)$`: the marker run is 1..4 '#' and must be
\* followed by whitespace; \s+ is greedy but gives back its last character
\* when nothing else is left for (.+).
HeaderMatch(line) ==
  LET h    == LeadingHashes(line)
      rest == SubSeq(line, h + 1, Len(line))
      w    == LeadingSpaces(rest)
      text == SubSeq(rest, w + 1, Len(rest))
  IN IF h < 1 \/ h > 4 \/ w < 1 THEN [ok |-> FALSE, level |-> 0, title |-> <<>>]
     ELSE IF Len(text) > 0 THEN [ok |-> TRUE, level |-> h, title |-> text]
     ELSE IF w >= 2 THEN [ok |-> TRUE, level |-> h, title |-> <<rest[w]>>]
     ELSE [ok |-> FALSE, level |-> 0, title |-> <<>>]

Section(title, content, level, line) ==
  [Title |-> title, Content |-> content, Level |-> level, Line |-> line]

RECURSIVE ParseFrom(_, _, _, _, _, _)
\* the loop of ParseSections from 0-based line i on: secs are the sections
\* closed so far, open says whether currentSection is non-nil
ParseFrom(lines, i, secs, open, cur, contentLines) ==
  IF i >= Len(lines)
  THEN IF open THEN Append(secs, [cur EXCEPT !.Content = Join(contentLines)])
       ELSE secs
  ELSE LET m == HeaderMatch(lines[i + 1])
       IN IF m.ok
          THEN ParseFrom(lines, i + 1,
                 IF open THEN Append(secs, [cur EXCEPT !.Content = Join(contentLines)])
                 ELSE secs,
                 TRUE, Section(m.title, <<>>, m.level, i), <<>>)
          ELSE IF open
          THEN ParseFrom(lines, i + 1, secs, open, cur, Append(contentLines, lines[i + 1]))
          ELSE ParseFrom(lines, i + 1, secs, open, cur, contentLines)

\* ParseSections that starts with a section already open
ParseSectionsOpenAtStart(lines) ==
  ParseFrom(lines, 0, <<>>, TRUE, Section(<<>>, <<>>, 0, 0), <<>>)

ParseSections(lines) == ParseFrom(lines, 0, <<>>, FALSE, Section(<<>>, <<>>, 0, 0), <<>>)

\* ------------------------------------------------------------- documents
LinePool ==
  { <<"#", " ", "A">>,
    <<"#", "#", " ", "B">>,
    <<"-", " ", "[", "x", "]", " ", "-", " ", "[", " ", "]">> }

RECURSIVE SeqsUpTo(_, _)
\* the sequences over S of length 0..n
SeqsUpTo(S, n) ==
  IF n = 0 THEN {<<>>}
  ELSE LET shorter == SeqsUpTo(S, n - 1)
       IN shorter \cup {Append(q, x) : q \in shorter, x \in S}

Documents == {Join(d) : d \in SeqsUpTo(LinePool, MaxDocLines) \ {<<>>}}

\* ------------------------------------------------------ content mutators
Unchecked == <<"-", " ", "[", " ", "]">>

Checked == <<"-", " ", "[", "x", "]">>

\* "> **Ghi chu [" (the u stands for the accented letter of the source)
NoteLabel == <<">", " ", "*", "*", "G", "h", "i", " ", "c", "h", "u", " ", "[">>

\* "**Ghi chu ["
NoteLabelCore == SubSeq(NoteLabel, 3, Len(NoteLabel))

\* GetCurrentSection() != nil
HasCurrent(secs, cur) == Len(secs) /= 0 /\ cur >= 0 /\ cur < Len(secs)

\* the 0-based content-line indices that hold a checkbox marker, in order
CheckboxLinesOf(content) ==
  LET lines == Split(content)
  IN SelectSeq([i \in 1..Len(lines) |-> i - 1],
               LAMBDA i : Contains(lines[i + 1], Unchecked) \/ Contains(lines[i + 1], Checked))

GetCheckboxLines(secs, cur) ==
  IF HasCurrent(secs, cur) THEN CheckboxLinesOf(secs[cur + 1].Content) ELSE <<>>

\* ToggleContent without its final `return false`: a line with no marker is
\* reported as toggled
ToggleContentNoReject(content, contentLineIdx) ==
  LET lines == Split(content)
  IN IF contentLineIdx < 0 \/ contentLineIdx >= Len(lines)
     THEN [ok |-> FALSE, content |-> content]
     ELSE LET line == lines[contentLineIdx + 1]
          IN IF Contains(line, Unchecked)
             THEN [ok |-> TRUE,
                   content |-> Join([lines EXCEPT ![contentLineIdx + 1] =
                                       ReplaceFirst(line, Unchecked, Checked)])]
             ELSE [ok |-> TRUE,
                   content |-> Join([lines EXCEPT ![contentLineIdx + 1] =
                                       ReplaceFirst(line, Checked, Unchecked)])]

\* the body of ToggleCheckbox on the current section's content
ToggleContent(content, contentLineIdx) ==
  LET lines == Split(content)
  IN IF contentLineIdx < 0 \/ contentLineIdx >= Len(lines)
     THEN [ok |-> FALSE, content |-> content]
     ELSE LET line == lines[contentLineIdx + 1]
          IN IF Contains(line, Unchecked)
             THEN [ok |-> TRUE,
                   content |-> Join([lines EXCEPT ![contentLineIdx + 1] =
                                       ReplaceFirst(line, Unchecked, Checked)])]
             ELSE IF Contains(line, Checked)
             THEN [ok |-> TRUE,
                   content |-> Join([lines EXCEPT ![contentLineIdx + 1] =
                                       ReplaceFirst(line, Checked, Unchecked)])]
             ELSE [ok |-> FALSE, content |-> content]

\* the clock readings time.Now().Format("2006-01-02 15:04") can give, each
\* abbreviated to its last digit
Timestamps == {<<"1">>}

\* NoteText with a single newline ahead of the quote line
NoteTextOneNewline(timestamp, note) ==
  <<NL>> \o NoteLabel \o timestamp \o <<"]", ":", "*", "*", " ">> \o note

\* fmt.Sprintf("\n\n> **Ghi chu [%s]:** %s", timestamp, note)
NoteText(timestamp, note) ==
  <<NL, NL>> \o NoteLabel \o timestamp \o <<"]", ":", "*", "*", " ">> \o note

RECURSIVE NotesIn(_)
\* how many note labels the contents of secs hold
NotesIn(secs) ==
  IF Len(secs) = 0 THEN 0
  ELSE Count(secs[1].Content, NoteLabelCore) + NotesIn(Tail(secs))

\* GetProgress whose total counts the unchecked markers only
GetProgressUncheckedTotal(secs, sectionIdx) ==
  IF sectionIdx < 0 \/ sectionIdx >= Len(secs) THEN <<0, 0>>
  ELSE LET content == secs[sectionIdx + 1].Content
           checked == Count(content, Checked)
       IN <<checked, Count(content, Unchecked)>>

\* GetProgress: (checked, total)
GetProgress(secs, sectionIdx) ==
  IF sectionIdx < 0 \/ sectionIdx >= Len(secs) THEN <<0, 0>>
  ELSE LET content == secs[sectionIdx + 1].Content
           checked == Count(content, Checked)
       IN <<checked, checked + Count(content, Unchecked)>>

RECURSIVE TotalFrom(_, _, _, _)
\* the loop of GetTotalProgress from section i on
TotalFrom(secs, i, checked, total) ==
  IF i >= Len(secs) THEN <<checked, total>>
  ELSE LET p == GetProgress(secs, i)
       IN TotalFrom(secs, i + 1, checked + p[1], total + p[2])

\* GetTotalProgress: (checked, total) over all sections
GetTotalProgress(secs) == TotalFrom(secs, 0, 0, 0)

\* unicode.ToLower on the letters of the model.  A code point outside ASCII
\* is written by its number: U+03A3 is the capital sigma, U+03C3 the small
\* sigma and U+03C2 the small final sigma, which is lower case already.
ToLowerRune(c) ==
  CASE c = "A" -> "a"
    [] c = "B" -> "b"
    [] c = "U+03A3" -> "U+03C3"
    [] OTHER -> c

\* strings.ToLower
ToLower(s) == [i \in 1..Len(s) |-> ToLowerRune(s[i])]

\* SearchSections: the 0-based indices of the matching sections
SearchSections(secs, query) ==
  SelectSeq([i \in 1..Len(secs) |-> i - 1],
            LAMBDA i : \/ Contains(ToLower(secs[i + 1].Title), ToLower(query))
                       \/ Contains(ToLower(secs[i + 1].Content), ToLower(query)))

RECURSIVE ExtractFrom(_, _, _, _, _)
\* the loop of extractNotes from 1-based line i on
ExtractFrom(lines, i, notes, currentNote, inNote) ==
  IF i > Len(lines)
  THEN IF Len(currentNote) > 0 THEN Append(notes, TrimSpace(currentNote)) ELSE notes
  ELSE LET trimmed == TrimSpace(lines[i])
           flushed == IF Len(currentNote) > 0
                      THEN Append(notes, TrimSpace(currentNote)) ELSE notes
       IN IF HasPrefix(trimmed, NoteLabel)
          THEN ExtractFrom(lines, i + 1, flushed, trimmed, TRUE)
          ELSE IF inNote /\ HasPrefix(trimmed, <<">">>)
          THEN ExtractFrom(lines, i + 1, notes, currentNote \o <<NL>> \o trimmed, TRUE)
          ELSE IF inNote /\ trimmed = <<>>
          THEN ExtractFrom(lines, i + 1, flushed, <<>>, FALSE)
          ELSE ExtractFrom(lines, i + 1, IF inNote THEN flushed ELSE notes,
                           IF inNote THEN <<>> ELSE currentNote, FALSE)

\* extractNotes that takes itself to be inside a note from the first line on
extractNotesInNoteAtStart(content) == ExtractFrom(Split(content), 1, <<>>, <<>>, TRUE)

extractNotes(content) == ExtractFrom(Split(content), 1, <<>>, <<>>, FALSE)

RECURSIVE RemoveFrom(_, _, _, _, _)
\* the loop of removeNoteFromContent from 1-based line i on
RemoveFrom(lines, i, result, skipUntilNonNote, firstNoteLine) ==
  IF i > Len(lines) THEN result
  ELSE LET line    == lines[i]
           trimmed == TrimSpace(line)
       IN IF Contains(trimmed, NoteLabelCore)
             /\ Contains(firstNoteLine, SubSeq(trimmed, 3, Len(trimmed)))
          THEN RemoveFrom(lines, i + 1, result, TRUE, firstNoteLine)
          ELSE IF skipUntilNonNote /\ HasPrefix(trimmed, <<">">>)
          THEN RemoveFrom(lines, i + 1, result, TRUE, firstNoteLine)
          ELSE IF skipUntilNonNote /\ trimmed = <<>> /\ i + 1 <= Len(lines)
                  /\ HasPrefix(TrimSpace(lines[i + 1]), <<">">>)
          THEN RemoveFrom(lines, i + 1, result, TRUE, firstNoteLine)
          ELSE RemoveFrom(lines, i + 1, Append(result, line), FALSE, firstNoteLine)

removeNoteFromContent(content, noteToRemove) ==
  LET firstNoteLine == TrimSpace(Split(noteToRemove)[1])
  IN TrimSpace(Join(RemoveFrom(Split(content), 1, <<>>, FALSE, firstNoteLine)))

\* ---------------------------------------------------------- synchronizer
\* capacity append gives a slice of capacity old that must hold need elements
\* (the Go runtime doubles a small slice unless that is still too small)
GrowCap(old, need) == IF need > 2 * old THEN need ELSE 2 * old

HeaderLine(sec) == Repeat("#", sec.Level) \o <<" ">> \o sec.Title

\* UpdateFileSection for a valid idx: the new FileLines and their capacity.
\* append(a.FileLines[:startLine], newLines...) writes into the backing array
\* of FileLines when its capacity suffices, and a.FileLines[endLine:] is read
\* from that array afterwards.
UpdateFileSection(lines, cap, secs, idx) ==
  LET sec       == secs[idx + 1]
      startLine == sec.Line
      endLine   == IF idx < Len(secs) - 1 THEN secs[idx + 2].Line ELSE Len(lines)
      newLines  == <<HeaderLine(sec)>> \o Split(sec.Content)
      len1      == startLine + Len(newLines)
      inPlace   == len1 <= cap
      cap1      == IF inPlace THEN cap ELSE GrowCap(cap, len1)
      backing   == [k \in 1..Len(lines) |->
                      IF inPlace /\ k > startLine /\ k <= len1
                      THEN newLines[k - startLine] ELSE lines[k]]
      tail      == SubSeq(backing, endLine + 1, Len(lines))
      len2      == len1 + Len(tail)
  IN [lines |-> SubSeq(lines, 1, startLine) \o newLines \o tail,
      cap   |-> IF len2 <= cap1 THEN cap1 ELSE GrowCap(cap1, len2)]

\* ----------------------------------------------------------------- state
\* op records the last call: its name, integer argument, text argument (a
\* note or a query), return value (TRUE for a call that returns nothing) and,
\* in prev, the content of the current section when ToggleCheckbox was called
\* or the list SearchSections returned.  For a key that handleInput handled
\* with a move of the cursor, note is the key, arg the ScrollOffset when the
\* key arrived and ret says whether CurrentIdx was set.
OpWith(name, arg, note, ret, prev) ==
  [name |-> name, arg |-> arg, note |-> note, ret |-> ret, prev |-> prev]

Op(name, arg, note, ret) == OpWith(name, arg, note, ret, <<>>)

NoteTexts == {<<"n">>}

\* the height terminal.GetSize() reports when stty fails
DefaultTermHeight == 24

\* NewRenderer: no scroll, and a page of TermHeight - 6 lines but at least 15
NewRenderer(termHeight) ==
  [ScrollOffset |-> 0,
   PageSize     |-> IF termHeight - 6 < 15 THEN 15 ELSE termHeight - 6]

\* "learning-path-full.md", the FilePath of NewApp
DefaultFilePath ==
  <<"l", "e", "a", "r", "n", "i", "n", "g", "-", "p", "a", "t", "h", "-", "f", "u", "l", "l", ".", "m", "d">>

\* no file at the path a.StateFile
NoStateFile == [found |-> FALSE, data |-> <<>>]

\* main: NewApp, LoadFile, ParseSections, NewRenderer
Init ==
  /\ FileContent \in Documents
  /\ FileLines = Split(FileContent)
  /\ FileCap = Len(FileLines)
  /\ Sections = ParseSections(FileLines)
  /\ CurrentIdx = 0
  /\ FilePath = DefaultFilePath
  /\ StateFile = NoStateFile
  /\ panicked = FALSE
  /\ op = Op("init", 0, <<>>, FALSE)
  /\ ScrollOffset = NewRenderer(DefaultTermHeight).ScrollOffset
  /\ PageSize = NewRenderer(DefaultTermHeight).PageSize

\* ------------------------------------------------------------ navigation
\* NextSection that wraps to the first section at the end
NextSectionWrap ==
  /\ ~panicked
  /\ IF CurrentIdx < Len(Sections) - 1
     THEN CurrentIdx' = CurrentIdx + 1 /\ op' = Op("NextSection", 0, <<>>, TRUE)
     ELSE CurrentIdx' = 0 /\ op' = Op("NextSection", 0, <<>>, FALSE)
  /\ UNCHANGED <<Sections, FileContent, FileLines, FileCap, panicked>> /\ UNCHANGED svars

NextSection ==
  /\ ~panicked
  /\ IF CurrentIdx < Len(Sections) - 1
     THEN CurrentIdx' = CurrentIdx + 1 /\ op' = Op("NextSection", 0, <<>>, TRUE)
     ELSE CurrentIdx' = CurrentIdx /\ op' = Op("NextSection", 0, <<>>, FALSE)
  /\ UNCHANGED <<Sections, FileContent, FileLines, FileCap, panicked>> /\ UNCHANGED svars

PrevSection ==
  /\ ~panicked
  /\ IF CurrentIdx > 0
     THEN CurrentIdx' = CurrentIdx - 1 /\ op' = Op("PrevSection", 0, <<>>, TRUE)
     ELSE CurrentIdx' = CurrentIdx /\ op' = Op("PrevSection", 0, <<>>, FALSE)
  /\ UNCHANGED <<Sections, FileContent, FileLines, FileCap, panicked>>

\* GotoSection with idx <= len(a.Sections) for its upper test
GotoSectionOffByOne(idx) ==
  /\ ~panicked
  /\ IF idx >= 0 /\ idx <= Len(Sections)
     THEN CurrentIdx' = idx /\ op' = Op("GotoSection", idx, <<>>, TRUE)
     ELSE CurrentIdx' = CurrentIdx /\ op' = Op("GotoSection", idx, <<>>, FALSE)
  /\ UNCHANGED <<Sections, FileContent, FileLines, FileCap, panicked>>

GotoSection(idx) ==
  /\ ~panicked
  /\ IF idx >= 0 /\ idx < Len(Sections)
     THEN CurrentIdx' = idx /\ op' = Op("GotoSection", idx, <<>>, TRUE)
     ELSE CurrentIdx' = CurrentIdx /\ op' = Op("GotoSection", idx, <<>>, FALSE)
  /\ UNCHANGED <<Sections, FileContent, FileLines, FileCap, panicked>>

\* --------------------------------------------------------- in-memory edits
ToggleCheckbox(contentLineIdx) ==
  /\ ~panicked
  /\ HasCurrent(Sections, CurrentIdx) =>
       contentLineIdx <= Len(Split(Sections[CurrentIdx + 1].Content))
  /\ IF ~HasCurrent(Sections, CurrentIdx)
     THEN Sections' = Sections /\ op' = Op("ToggleCheckbox", contentLineIdx, <<>>, FALSE)
     ELSE LET r == ToggleContent(Sections[CurrentIdx + 1].Content, contentLineIdx)
          IN /\ Sections' = [Sections EXCEPT ![CurrentIdx + 1].Content = r.content]
             /\ op' = OpWith("ToggleCheckbox", contentLineIdx, <<>>, r.ok,
                             Sections[CurrentIdx + 1].Content)
  /\ UNCHANGED <<CurrentIdx, FileContent, FileLines, FileCap, panicked>>

\* a.Sections[a.CurrentIdx] of AddNote is an index expression: it panics when
\* CurrentIdx is no index of Sections
AddNote(note, timestamp) ==
  /\ ~panicked
  /\ IF note = <<>>
     THEN UNCHANGED <<Sections, panicked>>
     ELSE IF CurrentIdx < 0 \/ CurrentIdx >= Len(Sections)
     THEN Sections' = Sections /\ panicked' = TRUE
     ELSE /\ NotesIn(Sections) < MaxNotes
          /\ Len(Split(Sections[CurrentIdx + 1].Content)) + 3 <= MaxFileLines
          /\ Sections' = [Sections EXCEPT ![CurrentIdx + 1].Content =
                                             @ \o NoteText(timestamp, note)]
          /\ panicked' = FALSE
  /\ op' = Op("AddNote", CurrentIdx, note, TRUE)
  /\ UNCHANGED <<CurrentIdx, FileContent, FileLines, FileCap>>

\* deleteNote, the in-memory half: the content of the current section is
\* replaced by removeNoteFromContent of one of its extracted notes
RemoveNote(n) ==
  /\ ~panicked
  /\ HasCurrent(Sections, CurrentIdx)
  /\ LET notes == extractNotes(Sections[CurrentIdx + 1].Content)
     IN /\ n <= Len(notes)
        /\ Sections' = [Sections EXCEPT ![CurrentIdx + 1].Content =
                                           removeNoteFromContent(@, notes[n])]
  /\ op' = Op("RemoveNote", n, <<>>, TRUE)
  /\ UNCHANGED <<CurrentIdx, FileContent, FileLines, FileCap, panicked>>

\* ------------------------------------------------- flatten and re-parse
\* the state after UpdateFileSection(idx); ParseSections() on (secs, lines, cap)
Synced(secs, lines, cap, content, idx) ==
  IF idx < 0 \/ idx >= Len(secs)
  THEN [secs |-> ParseSections(lines), lines |-> lines, cap |-> cap, content |-> content]
  ELSE LET u == UpdateFileSection(lines, cap, secs, idx)
       IN [secs |-> ParseSections(u.lines), lines |-> u.lines, cap |-> u.cap,
           content |-> Join(u.lines)]

\* UpdateFileSection(idx) followed by ParseSections()
UpdateAndParse(idx) ==
  /\ ~panicked
  /\ LET s == Synced(Sections, FileLines, FileCap, FileContent, idx)
     IN /\ Len(s.lines) <= MaxFileLines
        /\ Sections' = s.secs
        /\ FileLines' = s.lines
        /\ FileCap' = s.cap
        /\ FileContent' = s.content
  /\ op' = Op("UpdateAndParse", idx, <<>>, idx >= 0 /\ idx < Len(Sections))
  /\ UNCHANGED <<CurrentIdx, panicked>>

\* SaveFile, the in-memory half: FileContent is FileLines joined
SaveFile(lines) == Join(lines)

\* saveNote: AddNote, UpdateFileSection(CurrentIdx), ParseSections, SaveFile
saveNote(note, timestamp) ==
  /\ ~panicked
  /\ IF CurrentIdx < 0 \/ CurrentIdx >= Len(Sections)
     THEN /\ panicked' = TRUE
          /\ UNCHANGED <<Sections, FileContent, FileLines, FileCap>>
     ELSE LET edited == [Sections EXCEPT ![CurrentIdx + 1].Content =
                                            @ \o NoteText(timestamp, note)]
              s == Synced(edited, FileLines, FileCap, FileContent, CurrentIdx)
          IN /\ NotesIn(Sections) < MaxNotes
             /\ Len(s.lines) <= MaxFileLines
             /\ Sections' = s.secs
             /\ FileLines' = s.lines
             /\ FileCap' = s.cap
             /\ FileContent' = SaveFile(s.lines)
             /\ panicked' = FALSE
  /\ op' = Op("saveNote", CurrentIdx, note, TRUE)
  /\ UNCHANGED CurrentIdx

\* the calls on the App; none of them touches the Renderer
Next ==
  \/ NextSection /\ UNCHANGED rvars /\ UNCHANGED svars
  \/ PrevSection /\ UNCHANGED rvars /\ UNCHANGED svars
  \/ \E idx \in -1..Len(Sections) : GotoSection(idx) /\ UNCHANGED rvars /\ UNCHANGED svars
  \/ \E k \in -1..MaxFileLines : ToggleCheckbox(k) /\ UNCHANGED rvars /\ UNCHANGED svars
  \/ \E note \in NoteTexts \cup {<<>>}, ts \in Timestamps :
       AddNote(note, ts) /\ UNCHANGED rvars /\ UNCHANGED svars
  \/ \E n \in 1..(MaxFileLines \div 2) : RemoveNote(n) /\ UNCHANGED rvars /\ UNCHANGED svars
  \/ \E idx \in -1..Len(Sections) : UpdateAndParse(idx) /\ UNCHANGED rvars /\ UNCHANGED svars
  \/ \E note \in NoteTexts, ts \in Timestamps : saveNote(note, ts) /\ UNCHANGED rvars /\ UNCHANGED svars

Spec == Init /\ [][Next]_vars

\* ------------------------------------------------------------ the claims
\* the current section's content, for states that have a current section
CurContent == Sections[CurrentIdx + 1].Content

\* Title, Level and Content of a section, without its Line
Body(sec) == <<sec.Title, sec.Level, sec.Content>>

\* every Section.Line, Title and Level is the one a parse of FileLines gives
LinesFresh ==
  LET fresh == ParseSections(FileLines)
  IN /\ Len(fresh) = Len(Sections)
     /\ \A i \in 1..Len(Sections) :
          /\ Sections[i].Line = fresh[i].Line
          /\ Sections[i].Title = fresh[i].Title
          /\ Sections[i].Level = fresh[i].Level

\* C1: UpdateFileSection(i) with fresh Line values sets FileLines to
\* old[0..startLine) ++ [headerLine] ++ contentLines ++ old[endLine..),
\* whether the section shrank, kept its size or grew.
C1_SpliceKeepsSurroundings ==
  [][(op'.name = "UpdateAndParse" /\ op'.ret /\ LinesFresh) =>
       LET i         == op'.arg
           sec       == Sections[i + 1]
           startLine == sec.Line
           endLine   == IF i < Len(Sections) - 1 THEN Sections[i + 2].Line
                        ELSE Len(FileLines)
       IN FileLines' = SubSeq(FileLines, 1, startLine)
                         \o <<HeaderLine(sec)>> \o Split(sec.Content)
                         \o SubSeq(FileLines, endLine + 1, Len(FileLines))]_vars

\* C2: UpdateFileSection(i) followed by ParseSections yields a section i with
\* the Title, Level and Content section i had just before UpdateFileSection.
C2_RoundTrip ==
  [][(op'.name = "UpdateAndParse" /\ op'.ret) =>
       /\ op'.arg < Len(Sections')
       /\ Body(Sections'[op'.arg + 1]) = Body(Sections[op'.arg + 1])]_vars

\* C3: after saveNote on the current section i of a document whose sections
\* are in step with its lines, the number of sections is unchanged and every
\* section j /= i has the Title, Level and Content it had before.
C3_SaveNoteFrame ==
  [][(op'.name = "saveNote" /\ ~panicked' /\ Sections = ParseSections(FileLines)) =>
       /\ Len(Sections') = Len(Sections)
       /\ \A j \in 1..Len(Sections) :
            j /= CurrentIdx + 1 => Body(Sections'[j]) = Body(Sections[j])]_vars

\* C5: two successful ToggleCheckbox calls in a row with the same index leave
\* the content as it was before the first.
C5_ToggleTwiceRestores ==
  [][(/\ op.name = "ToggleCheckbox" /\ op.ret
      /\ op'.name = "ToggleCheckbox" /\ op'.ret
      /\ op'.arg = op.arg) =>
       Sections'[CurrentIdx + 1].Content = op.prev]_vars

\* ---------------------------------------------- documents that hold notes
NoteLine(timestamp, note) == SubSeq(NoteText(timestamp, note), 3, Len(NoteText(timestamp, note)))

NotePool ==
  { <<>>,
    <<"t">>,
    NoteLine(<<"1">>, <<"n">>),
    NoteLine(<<"1">>, <<"m">>),
    <<" ", ">", " ", "c">> }

\* one section "# A" whose content is up to MaxNoteLines lines of NotePool
NoteDocuments ==
  {Join(<<<<"#", " ", "A">>>> \o d) : d \in SeqsUpTo(NotePool, MaxNoteLines)}

InitNotes ==
  /\ FileContent \in NoteDocuments
  /\ FileLines = Split(FileContent)
  /\ FileCap = Len(FileLines)
  /\ Sections = ParseSections(FileLines)
  /\ CurrentIdx = 0
  /\ FilePath = DefaultFilePath
  /\ StateFile = NoStateFile
  /\ panicked = FALSE
  /\ op = Op("init", 0, <<>>, FALSE)
  /\ ScrollOffset = NewRenderer(DefaultTermHeight).ScrollOffset
  /\ PageSize = NewRenderer(DefaultTermHeight).PageSize

NextNotes ==
  \/ \E n \in 1..MaxNoteLines : RemoveNote(n) /\ UNCHANGED rvars /\ UNCHANGED svars
  \/ \E note \in NoteTexts, ts \in Timestamps : AddNote(note, ts) /\ UNCHANGED rvars /\ UNCHANGED svars

SpecNotes == InitNotes /\ [][NextNotes]_vars

\* the lines of a content that are neither blank nor quote-prefixed, trimmed
PlainLines(content) ==
  LET trimmed == [i \in 1..Len(Split(content)) |-> TrimSpace(Split(content)[i])]
  IN SelectSeq(trimmed, LAMBDA l : l /= <<>> /\ ~HasPrefix(l, <<">">>))

\* C4: removing the n-th extracted note keeps every extracted note block that
\* differs from it and every line that belongs to no note.
C4_RemoveExactlyTarget ==
  [][op'.name = "RemoveNote" =>
       LET notes == extractNotes(CurContent)
           after == Sections'[CurrentIdx + 1].Content
           left  == extractNotes(after)
       IN /\ \A m \in 1..Len(notes) :
               notes[m] /= notes[op'.arg] => \E j \in 1..Len(left) : left[j] = notes[m]
          /\ PlainLines(after) = PlainLines(CurContent)]_vars

\* C6: ToggleCheckbox(k) returns false and changes nothing when there is no
\* current section, k is negative, k is at or beyond the number of content
\* lines, or line k holds neither marker.
C6_ToggleRejects ==
  [][op'.name = "ToggleCheckbox" =>
       LET k == op'.arg
           rejected ==
             \/ ~HasCurrent(Sections, CurrentIdx)
             \/ k < 0
             \/ k >= Len(Split(CurContent))
             \/ /\ ~Contains(Split(CurContent)[k + 1], Unchecked)
                /\ ~Contains(Split(CurContent)[k + 1], Checked)
       IN rejected => /\ ~op'.ret
                      /\ UNCHANGED <<Sections, CurrentIdx, FileLines>>]_vars

\* a rejected toggle of a line that is in range and holds no marker
C6_Witness ==
  /\ op.name = "ToggleCheckbox" /\ ~op.ret
  /\ HasCurrent(Sections, CurrentIdx)
  /\ op.arg >= 0 /\ op.arg < Len(Split(CurContent))
  /\ Len(Split(CurContent)) >= 2

\* C7: a successful ToggleCheckbox keeps the total of the current section,
\* moves its checked count by one (up when the line held an unchecked marker,
\* down otherwise) and leaves the other lines and the other sections alone.
C7_ToggleCountsByOne ==
  [][(op'.name = "ToggleCheckbox" /\ op'.ret) =>
       LET k      == op'.arg
           before == Split(CurContent)
           after  == Split(Sections'[CurrentIdx + 1].Content)
           p      == GetProgress(Sections, CurrentIdx)
           q      == GetProgress(Sections', CurrentIdx)
       IN /\ q[2] = p[2]
          /\ q[1] = p[1] + (IF Contains(before[k + 1], Unchecked) THEN 1 ELSE -1)
          /\ Len(after) = Len(before)
          /\ \A i \in 1..Len(before) : i /= k + 1 => after[i] = before[i]
          /\ Len(Sections') = Len(Sections)
          /\ \A j \in 1..Len(Sections) : j /= CurrentIdx + 1 => Sections'[j] = Sections[j]]_vars

\* a toggle that unchecked a line which still holds a checked marker
C7_Witness ==
  /\ op.name = "ToggleCheckbox" /\ op.ret
  /\ Count(op.prev, Checked) = 2
  /\ GetProgress(Sections, CurrentIdx) = <<1, 2>>

\* C9: at a valid cursor, NextSection at the last section and PrevSection at
\* the first return false and keep CurrentIdx; elsewhere they return true and
\* move it by exactly one.
C9_NextPrevBounded ==
  [][(CurrentIdx >= 0 /\ CurrentIdx < Len(Sections)) =>
       /\ op'.name = "NextSection" =>
            IF CurrentIdx = Len(Sections) - 1
            THEN ~op'.ret /\ CurrentIdx' = CurrentIdx
            ELSE op'.ret /\ CurrentIdx' = CurrentIdx + 1
       /\ op'.name = "PrevSection" =>
            IF CurrentIdx = 0
            THEN ~op'.ret /\ CurrentIdx' = CurrentIdx
            ELSE op'.ret /\ CurrentIdx' = CurrentIdx - 1]_vars

\* NextSection refused at the last of several sections
C9_Witness ==
  /\ op.name = "NextSection" /\ ~op.ret
  /\ Len(Sections) >= 2 /\ CurrentIdx = Len(Sections) - 1

\* C10: GotoSection(idx) returns true and sets CurrentIdx = idx when
\* 0 <= idx < len(Sections); otherwise it returns false and keeps CurrentIdx.
C10_GotoChecksRange ==
  [][op'.name = "GotoSection" =>
       IF op'.arg >= 0 /\ op'.arg < Len(Sections)
       THEN op'.ret /\ CurrentIdx' = op'.arg
       ELSE ~op'.ret /\ CurrentIdx' = CurrentIdx]_vars

\* GotoSection(len(Sections)) refused away from the first section
C10_Witness ==
  /\ op.name = "GotoSection" /\ ~op.ret
  /\ op.arg = Len(Sections) /\ CurrentIdx = 1

\* C8: in a document with at least one section the cursor is a valid index.
C8_CursorInRange ==
  (~panicked /\ Len(Sections) >= 1) => (0 <= CurrentIdx /\ CurrentIdx < Len(Sections))

\* --------------------------------------- documents for parsing and queries
MaxQueryLines == 4

\* headers of two levels and two letter cases, both checkbox markers, a line
\* with a small final sigma, and marker lines that end in white space
QueryPool ==
  { <<"#", " ", "A">>,
    <<"#", "#", " ", "a">>,
    <<"-", " ", "[", "x", "]">>,
    <<"-", " ", "[", " ", "]", " ", "U+03C2">>,
    <<"#", " ", " ">>,
    <<"#", " ">> }

QueryDocuments == {Join(d) : d \in SeqsUpTo(QueryPool, MaxQueryLines)}

\* the queries typed at the search prompt
Queries == { <<"a">>, <<"A">>, <<"U+03C2">>, <<"U+03A3">> }

\* main up to LoadFile: the file is read and not yet parsed
InitDoc ==
  /\ FileContent \in QueryDocuments
  /\ FileLines = Split(FileContent)
  /\ FileCap = Len(FileLines)
  /\ Sections = <<>>
  /\ CurrentIdx = 0
  /\ FilePath = DefaultFilePath
  /\ StateFile = NoStateFile
  /\ panicked = FALSE
  /\ op = Op("init", 0, <<>>, FALSE)
  /\ ScrollOffset = NewRenderer(DefaultTermHeight).ScrollOffset
  /\ PageSize = NewRenderer(DefaultTermHeight).PageSize

\* a call of ParseSections()
ParseSectionsCall ==
  /\ Sections' = ParseSections(FileLines)
  /\ op' = Op("ParseSections", 0, <<>>, TRUE)
  /\ UNCHANGED <<CurrentIdx, FileContent, FileLines, FileCap, panicked>>

\* a call of SearchSections(query)
SearchSectionsCall(query) ==
  /\ op' = OpWith("SearchSections", 0, query, TRUE, SearchSections(Sections, query))
  /\ UNCHANGED avars

NextDoc ==
  \/ ParseSectionsCall /\ UNCHANGED rvars /\ UNCHANGED svars
  \/ \E q \in Queries : SearchSectionsCall(q) /\ UNCHANGED rvars /\ UNCHANGED svars
  \/ \E k \in 0..1 : ToggleCheckbox(k) /\ UNCHANGED rvars /\ UNCHANGED svars

SpecDoc == InitDoc /\ [][NextDoc]_vars

RECURSIVE SumProgress(_, _, _)
\* the sum of component k of GetProgress over the first n sections
SumProgress(secs, k, n) ==
  IF n = 0 THEN 0 ELSE GetProgress(secs, n - 1)[k] + SumProgress(secs, k, n - 1)

\* C11: for every valid i the checked count of GetProgress(i) is at most its
\* total, GetTotalProgress is the component-wise sum of GetProgress(i) over
\* all sections, and GetProgress outside [0, len(Sections)) is (0, 0).
C11_ProgressSums ==
  /\ \A i \in 0..(Len(Sections) - 1) :
       GetProgress(Sections, i)[1] <= GetProgress(Sections, i)[2]
  /\ GetTotalProgress(Sections) =
       <<SumProgress(Sections, 1, Len(Sections)), SumProgress(Sections, 2, Len(Sections))>>
  /\ GetProgress(Sections, -1) = <<0, 0>>
  /\ GetProgress(Sections, Len(Sections)) = <<0, 0>>

\* two sections with checkboxes, one of them checked
C11_Witness ==
  /\ Len(Sections) = 2
  /\ GetProgress(Sections, 0) = <<1, 1>>
  /\ GetProgress(Sections, 1) = <<0, 1>>
  /\ GetTotalProgress(Sections) = <<1, 2>>

\* 1 to 4 '#' followed by one or more spaces or tabs and nothing else
MarkerOnly(line) ==
  LET h == LeadingHashes(line)
  IN /\ h >= 1 /\ h <= 4
     /\ Len(line) > h
     /\ \A i \in (h + 1)..Len(line) : line[i] \in {" ", "\t"}

\* C12: a line of 1 to 4 '#' followed only by white space opens no section
\* and is a content line of the section that is open at that line.
C12_MarkerOnlyIsNoHeader ==
  op.name = "ParseSections" =>
    \A i \in 1..Len(FileLines) :
      MarkerOnly(FileLines[i]) =>
        /\ \A j \in 1..Len(Sections) : Sections[j].Line /= i - 1
        /\ \A j \in 1..Len(Sections) :
             (/\ Sections[j].Line < i - 1
              /\ j < Len(Sections) => Sections[j + 1].Line > i - 1) =>
               Split(Sections[j].Content)[i - 1 - Sections[j].Line] = FileLines[i]

\* the header pattern read as a definition: 1 to 4 '#', then at least one
\* white-space character, then at least one more character
MatchesHeaderPattern(line) ==
  \E h \in 1..4, w \in 1..Len(line) :
    /\ Len(line) > h + w
    /\ \A i \in 1..h : line[i] = "#"
    /\ \A i \in (h + 1)..(h + w) : IsSpace(line[i])

\* the 0-based indices of the lines that match the header pattern, in order
HeaderIndices(lines) ==
  SelectSeq([i \in 1..Len(lines) |-> i - 1], LAMBDA i : MatchesHeaderPattern(lines[i + 1]))

\* C13: ParseSections gives one section per line that matches the header
\* pattern, in order, with Line the index of that line, Level its number of
\* '#' (1..4) and Content the lines strictly between it and the next such
\* line (or the end) joined by newline; lines before the first header are in
\* no section, and an input without header has no section.
C13_OneSectionPerHeader ==
  op.name = "ParseSections" =>
    LET hs == HeaderIndices(FileLines)
    IN /\ Len(Sections) = Len(hs)
       /\ \A j \in 1..Len(hs) :
            LET next == IF j < Len(hs) THEN hs[j + 1] ELSE Len(FileLines)
            IN /\ Sections[j].Line = hs[j]
               /\ Sections[j].Level = LeadingHashes(FileLines[hs[j] + 1])
               /\ Sections[j].Level \in 1..4
               /\ Sections[j].Content = Join(SubSeq(FileLines, hs[j] + 2, next))

\* two sections parsed from a file whose first line is no header
C13_Witness ==
  /\ op.name = "ParseSections"
  /\ Len(Sections) = 2
  /\ Sections[1].Line = 1
  /\ Sections[1].Content /= <<>>
  /\ Sections[2].Level = 2

\* C14: AddNote("") changes nothing; AddNote(text) with a non-empty text on a
\* current section appends to its Content a blank-line separator and one
\* '> **label [timestamp]:** text' line, and leaves the rest of that section,
\* every other section, CurrentIdx and FileLines as they were.
C14_AddNoteFrame ==
  [][op'.name = "AddNote" =>
       IF op'.note = <<>>
       THEN UNCHANGED <<Sections, CurrentIdx, FileLines, FileContent>>
       ELSE HasCurrent(Sections, CurrentIdx) =>
              /\ \E ts \in Timestamps :
                   Sections'[CurrentIdx + 1].Content =
                     CurContent \o <<NL, NL>> \o NoteLabel \o ts
                       \o <<"]", ":", "*", "*", " ">> \o op'.note
              /\ Len(Sections'[CurrentIdx + 1].Content) > Len(CurContent)
              /\ Len(Sections') = Len(Sections)
              /\ \A j \in 1..Len(Sections) :
                   /\ j /= CurrentIdx + 1 => Sections'[j] = Sections[j]
                   /\ Sections'[j].Title = Sections[j].Title
                   /\ Sections'[j].Level = Sections[j].Level
                   /\ Sections'[j].Line = Sections[j].Line
              /\ UNCHANGED <<CurrentIdx, FileLines>>]_vars

\* a note added to the second of two sections
C14_Witness ==
  /\ op.name = "AddNote" /\ op.note /= <<>> /\ ~panicked
  /\ Len(Sections) = 2 /\ CurrentIdx = 1
  /\ Contains(CurContent, NoteLabel)
  /\ ~Contains(Sections[1].Content, NoteLabel)

\* the 1-based indices of the lines whose trimmed form starts with the label
LabelLines(lines) ==
  SelectSeq([i \in 1..Len(lines) |-> i], LAMBDA i : HasPrefix(TrimSpace(lines[i]), NoteLabel))

RECURSIVE QuoteRun(_, _)
\* how many lines from line i on are quote-prefixed without being label lines
QuoteRun(lines, i) ==
  IF /\ i <= Len(lines)
     /\ HasPrefix(TrimSpace(lines[i]), <<">">>)
     /\ ~HasPrefix(TrimSpace(lines[i]), NoteLabel)
  THEN 1 + QuoteRun(lines, i + 1) ELSE 0

\* the label line i and the quote lines that directly follow it, trimmed
NoteBlock(lines, i) ==
  Join([k \in 1..(1 + QuoteRun(lines, i + 1)) |-> TrimSpace(lines[i + k - 1])])

\* C15: extractNotes gives one entry per line whose trimmed form starts with
\* the note label, in order, each made of that line and the quote-prefixed
\* lines that directly follow it; a content without label line gives none.
C15_OneNotePerLabel ==
  HasCurrent(Sections, CurrentIdx) =>
    LET lines == Split(CurContent)
        ls    == LabelLines(lines)
        notes == extractNotes(CurContent)
    IN /\ Len(notes) = Len(ls)
       /\ \A j \in 1..Len(ls) : notes[j] = NoteBlock(lines, ls[j])

\* two notes, the first with a quote line after its label line
C15_Witness ==
  /\ HasCurrent(Sections, CurrentIdx)
  /\ Len(extractNotes(CurContent)) = 2
  /\ Contains(extractNotes(CurContent)[1], <<NL>>)
  /\ ~Contains(extractNotes(CurContent)[2], <<NL>>)

\* the upper-case form of a letter of the model: both small sigmas have the
\* capital sigma as their upper case
UpperOf(c) ==
  CASE c = "a" -> "A"
    [] c = "b" -> "B"
    [] c = "U+03C3" -> "U+03A3"
    [] c = "U+03C2" -> "U+03A3"
    [] OTHER -> c

\* s and t are the same text up to the case of their letters
SameIgnoringCase(s, t) ==
  Len(s) = Len(t) /\ \A i \in 1..Len(s) : UpperOf(s[i]) = UpperOf(t[i])

\* q occurs in s up to the case of the letters
ContainsIgnoringCase(s, q) ==
  \E i \in 1..(Len(s) - Len(q) + 1) : SameIgnoringCase(SubSeq(s, i, i + Len(q) - 1), q)

\* C16: SearchSections(q) returns, in strictly increasing order, exactly the
\* indices of the sections whose Title or Content contains q up to letter
\* case, and returns the same list for every re-casing of q.
C16_SearchIgnoresCase ==
  op.name = "SearchSections" =>
    LET q   == op.note
        res == op.prev
    IN /\ \A i, j \in 1..Len(res) : i < j => res[i] < res[j]
       /\ {res[i] : i \in 1..Len(res)} =
            {k \in 0..(Len(Sections) - 1) :
               \/ ContainsIgnoringCase(Sections[k + 1].Title, q)
               \/ ContainsIgnoringCase(Sections[k + 1].Content, q)}
       /\ \A q2 \in Queries :
            SameIgnoringCase(q, q2) => SearchSections(Sections, q2) = res

\* ------------------------------------------------------------- the viewport
MaxViewLines == 12

MaxPageSize == 20

\* n content lines "a"
BodyLines(n) == [i \in 1..n |-> <<"a">>]

\* the numbers of content lines of the sections that are viewed
ViewLengths == {0, 7, MaxViewLines}

\* a file without header, and the files "# A", n lines, "## B", m lines
ViewDocuments ==
  {<<"a">>} \cup
  {Join(<<<<"#", " ", "A">>>> \o BodyLines(n) \o <<<<"#", "#", " ", "B">>>> \o BodyLines(m)) :
     n \in ViewLengths, m \in ViewLengths}

\* the heights terminal.GetSize() reports
TermHeights == {10, DefaultTermHeight}

\* the values the state file holds for current_section and page_size
SavedSections == {-1, 0, 1, 2}

SavedPageSizes == {0, 3, 8}

\* main up to NewRenderer: the file is read and parsed, the state file is not
\* yet looked at
InitView ==
  /\ FileContent \in ViewDocuments
  /\ FileLines = Split(FileContent)
  /\ FileCap = Len(FileLines)
  /\ Sections = ParseSections(FileLines)
  /\ CurrentIdx = 0
  /\ FilePath = DefaultFilePath
  /\ StateFile = NoStateFile
  /\ panicked = FALSE
  /\ op = Op("init", 0, <<>>, FALSE)
  /\ \E h \in TermHeights :
       /\ ScrollOffset = NewRenderer(h).ScrollOffset
       /\ PageSize = NewRenderer(h).PageSize

\* main, the restoration of the saved state: LoadState sets CurrentIdx to the
\* saved current_section and returns the saved page_size; without a state
\* file it fails and nothing is restored
Startup(found, savedSection, savedPageSize) ==
  /\ op.name = "init"
  /\ IF found
     THEN /\ PageSize' = IF savedPageSize > 0 THEN savedPageSize ELSE PageSize
          /\ CurrentIdx' = IF savedSection >= Len(Sections) THEN 0 ELSE savedSection
     ELSE UNCHANGED <<PageSize, CurrentIdx>>
  /\ op' = Op("Startup", savedPageSize, <<>>, found)
  /\ UNCHANGED <<Sections, FileContent, FileLines, FileCap, panicked, ScrollOffset>>

ResetScroll ==
  /\ ScrollOffset' = 0
  /\ op' = Op("ResetScroll", 0, <<>>, TRUE)
  /\ UNCHANGED <<PageSize, avars>>

\* ScrollDown whose test leaves out the page size
ScrollDownNoPage ==
  /\ IF /\ HasCurrent(Sections, CurrentIdx)
        /\ ScrollOffset < Len(Split(Sections[CurrentIdx + 1].Content))
     THEN ScrollOffset' = ScrollOffset + 3 /\ op' = Op("ScrollDown", 0, <<>>, TRUE)
     ELSE ScrollOffset' = ScrollOffset /\ op' = Op("ScrollDown", 0, <<>>, FALSE)
  /\ UNCHANGED <<PageSize, avars>>

\* ScrollDown that also scrolls when the page ends exactly at the last line
ScrollDownInclusive ==
  /\ IF /\ HasCurrent(Sections, CurrentIdx)
        /\ ScrollOffset + PageSize <= Len(Split(Sections[CurrentIdx + 1].Content))
     THEN ScrollOffset' = ScrollOffset + 3 /\ op' = Op("ScrollDown", 0, <<>>, TRUE)
     ELSE ScrollOffset' = ScrollOffset /\ op' = Op("ScrollDown", 0, <<>>, FALSE)
  /\ UNCHANGED <<PageSize, avars>>

ScrollDown ==
  /\ IF /\ HasCurrent(Sections, CurrentIdx)
        /\ ScrollOffset + PageSize < Len(Split(Sections[CurrentIdx + 1].Content))
     THEN ScrollOffset' = ScrollOffset + 3 /\ op' = Op("ScrollDown", 0, <<>>, TRUE)
     ELSE ScrollOffset' = ScrollOffset /\ op' = Op("ScrollDown", 0, <<>>, FALSE)
  /\ UNCHANGED <<PageSize, avars>>

\* ScrollUp without its test of the offset
ScrollUpBelowZero ==
  /\ ScrollOffset' = ScrollOffset - 3
  /\ op' = Op("ScrollUp", 0, <<>>, TRUE)
  /\ UNCHANGED <<PageSize, avars>>

ScrollUp ==
  /\ IF ScrollOffset > 0
     THEN /\ ScrollOffset' = IF ScrollOffset - 3 < 0 THEN 0 ELSE ScrollOffset - 3
          /\ op' = Op("ScrollUp", 0, <<>>, TRUE)
     ELSE ScrollOffset' = ScrollOffset /\ op' = Op("ScrollUp", 0, <<>>, FALSE)
  /\ UNCHANGED <<PageSize, avars>>

AdjustPageSize(delta) ==
  /\ PageSize + delta <= MaxPageSize
  /\ PageSize' = IF PageSize + delta < 5 THEN 5 ELSE PageSize + delta
  /\ op' = Op("AdjustPageSize", delta, <<>>, TRUE)
  /\ UNCHANGED <<ScrollOffset, avars>>

\* Render, as far as it changes state: printContent sets ScrollOffset to 0
\* when it is at or beyond the number of lines of the current section
Render ==
  /\ ScrollOffset' =
       IF /\ HasCurrent(Sections, CurrentIdx)
          /\ ScrollOffset >= Len(Split(Sections[CurrentIdx + 1].Content))
       THEN 0 ELSE ScrollOffset
  /\ op' = Op("Render", 0, <<>>, TRUE)
  /\ UNCHANGED <<PageSize, avars>>

\* the deltas AdjustPageSize is called with
Deltas == {-10, -1, 1, 10}

\* the calls on the Renderer, and the calls on the App that move the cursor
NextView ==
  \/ \E found \in BOOLEAN, c \in SavedSections, ps \in SavedPageSizes : Startup(found, c, ps) /\ UNCHANGED svars
  \/ op.name /= "init" /\ ScrollDown /\ UNCHANGED svars
  \/ op.name /= "init" /\ ScrollUp /\ UNCHANGED svars
  \/ op.name /= "init" /\ ResetScroll /\ UNCHANGED svars
  \/ op.name /= "init" /\ Render /\ UNCHANGED svars
  \/ op.name /= "init" /\ \E delta \in Deltas : AdjustPageSize(delta) /\ UNCHANGED svars
  \/ op.name /= "init" /\ NextSection /\ UNCHANGED rvars /\ UNCHANGED svars
  \/ op.name /= "init" /\ PrevSection /\ UNCHANGED rvars /\ UNCHANGED svars

SpecView == InitView /\ [][NextView]_vars

\* C17: ScrollDown adds 3 to ScrollOffset and returns true exactly when there
\* is a current section and ScrollOffset + PageSize is less than its number
\* of content lines; otherwise it returns false and keeps ScrollOffset.
C17_ScrollDownStep ==
  [][op'.name = "ScrollDown" =>
       IF /\ HasCurrent(Sections, CurrentIdx)
          /\ ScrollOffset + PageSize < Len(Split(CurContent))
       THEN op'.ret /\ ScrollOffset' = ScrollOffset + 3
       ELSE ~op'.ret /\ ScrollOffset' = ScrollOffset]_vars

\* a second successful ScrollDown under a page of at least 5 lines
C17_Witness ==
  /\ op.name = "ScrollDown" /\ op.ret
  /\ ScrollOffset = 6 /\ PageSize >= 5

\* C18: ScrollOffset is never negative; ScrollUp at offset 0 returns false
\* and changes nothing, and at a positive offset returns true and sets the
\* offset to max(0, offset - 3).
C18_ScrollUpClamped ==
  /\ [](ScrollOffset >= 0)
  /\ [][op'.name = "ScrollUp" =>
          IF ScrollOffset = 0
          THEN ~op'.ret /\ UNCHANGED <<ScrollOffset, PageSize, avars>>
          ELSE /\ op'.ret
               /\ ScrollOffset' = IF ScrollOffset - 3 > 0 THEN ScrollOffset - 3 ELSE 0]_vars

\* ScrollUp refused at the top after a scroll down and back
C18_Witness ==
  /\ op.name = "ScrollUp" /\ ~op.ret
  /\ ScrollOffset = 0
  /\ HasCurrent(Sections, CurrentIdx)
  /\ PageSize < Len(Split(CurContent))

\* C19: PageSize is at least 5 in every state of a session, and
\* AdjustPageSize(delta) sets it to max(5, PageSize + delta).
C19_PageSizeFloor ==
  /\ [](PageSize >= 5)
  /\ [][op'.name = "AdjustPageSize" =>
          PageSize' = IF PageSize + op'.arg > 5 THEN PageSize + op'.arg ELSE 5]_vars

\* -------------------------------------------------------------- the session
\* the main loop has rendered and handleInput reads the next key
Ready == op.name = "Render"

\* the record of a key handled by handleInput
Key(key, moved) == OpWith("handleInput", ScrollOffset, <<key>>, moved, <<>>)

\* 'n' handled without the ResetScroll after a successful NextSection
InputNextNoReset ==
  /\ Ready
  /\ CurrentIdx' = IF CurrentIdx < Len(Sections) - 1 THEN CurrentIdx + 1 ELSE CurrentIdx
  /\ ScrollOffset' = ScrollOffset
  /\ op' = Key("n", CurrentIdx < Len(Sections) - 1)
  /\ UNCHANGED <<Sections, FileContent, FileLines, FileCap, panicked, PageSize>>

\* 'n' and Enter: NextSection, and ResetScroll when it returned true
InputNext ==
  /\ Ready
  /\ CurrentIdx' = IF CurrentIdx < Len(Sections) - 1 THEN CurrentIdx + 1 ELSE CurrentIdx
  /\ ScrollOffset' = IF CurrentIdx < Len(Sections) - 1 THEN 0 ELSE ScrollOffset
  /\ op' = Key("n", CurrentIdx < Len(Sections) - 1)
  /\ UNCHANGED <<Sections, FileContent, FileLines, FileCap, panicked, PageSize>>

\* 'p': PrevSection, and ResetScroll when it returned true
InputPrev ==
  /\ Ready
  /\ CurrentIdx' = IF CurrentIdx > 0 THEN CurrentIdx - 1 ELSE CurrentIdx
  /\ ScrollOffset' = IF CurrentIdx > 0 THEN 0 ELSE ScrollOffset
  /\ op' = Key("p", CurrentIdx > 0)
  /\ UNCHANGED <<Sections, FileContent, FileLines, FileCap, panicked, PageSize>>

\* a key whose handler ends in GotoSection(idx), or in no call when called
\* is false, followed by ResetScroll
InputJump(key, called, idx) ==
  /\ Ready
  /\ CurrentIdx' = IF called /\ idx >= 0 /\ idx < Len(Sections) THEN idx ELSE CurrentIdx
  /\ ScrollOffset' = 0
  /\ op' = Key(key, called /\ idx >= 0 /\ idx < Len(Sections))
  /\ UNCHANGED <<Sections, FileContent, FileLines, FileCap, panicked, PageSize>>

\* 't': handleTOC ends with the section picked with Enter, or with none
InputTOC(picked, idx) ==
  InputJump("t", picked /\ Len(Sections) > 0, idx)

\* 'g': handleGoto calls GotoSection(num - 1) when a number was typed
InputGoto(typed, num) == InputJump("g", typed, num - 1)

\* 'G': GotoSection(len(app.Sections) - 1)
InputGotoLast == InputJump("G", TRUE, Len(Sections) - 1)

\* '/': handleSearch calls GotoSection(matches[num - 1]) when the query is
\* not empty and num is a position of the list of matches
InputSearch(query, num) ==
  LET matches == SearchSections(Sections, query)
      chosen  == query /= <<>> /\ num >= 1 /\ num <= Len(matches)
  IN InputJump("/", chosen, IF chosen THEN matches[num] ELSE 0)

NextSession ==
  \/ \E found \in BOOLEAN, c \in SavedSections, ps \in SavedPageSizes : Startup(found, c, ps) /\ UNCHANGED svars
  \/ op.name \notin {"init", "Render"} /\ Render /\ UNCHANGED svars
  \/ Ready /\ ScrollDown /\ UNCHANGED svars
  \/ Ready /\ ScrollUp /\ UNCHANGED svars
  \/ InputNext /\ UNCHANGED svars
  \/ InputPrev /\ UNCHANGED svars
  \/ \E picked \in BOOLEAN, idx \in 0..(Len(Sections) - 1) : InputTOC(picked, idx) /\ UNCHANGED svars
  \/ \E typed \in BOOLEAN, num \in 0..(Len(Sections) + 1) : InputGoto(typed, num) /\ UNCHANGED svars
  \/ InputGotoLast /\ UNCHANGED svars
  \/ \E q \in Queries \cup {<<>>}, num \in 0..(Len(Sections) + 1) : InputSearch(q, num) /\ UNCHANGED svars
  \/ Ready /\ \E delta \in {-10, 10} : AdjustPageSize(delta) /\ UNCHANGED svars

SpecSession == InitView /\ [][NextSession]_vars

\* C20: a step of the session that changes CurrentIdx ends with ScrollOffset
\* 0; the section shown never changes under a ScrollOffset that stays at its
\* non-zero value.
C20_ScrollResetOnMove ==
  [][CurrentIdx' /= CurrentIdx => ScrollOffset' = 0]_vars

\* 'n' moved from a scrolled first section to the second
C20_Witness ==
  /\ op.name = "handleInput" /\ op.note = <<"n">> /\ op.ret
  /\ op.arg > 0
  /\ CurrentIdx = 1 /\ ScrollOffset = 0

\* C21: on a document with zero sections every call completes without an
\* index-out-of-range failure and changes nothing, and the queries give
\* their zero results.
C21_TotalOnNoSections ==
  [][Len(Sections) = 0 =>
       /\ ~panicked'
       /\ UNCHANGED <<Sections, CurrentIdx, FileLines>>
       /\ op'.name \in {"NextSection", "PrevSection", "GotoSection", "ToggleCheckbox"}
            => ~op'.ret
       /\ ~HasCurrent(Sections, CurrentIdx)
       /\ GetCheckboxLines(Sections, CurrentIdx) = <<>>
       /\ GetProgress(Sections, CurrentIdx) = <<0, 0>>
       /\ GetTotalProgress(Sections) = <<0, 0>>]_vars

\* ---------------------------------------------------------------- RenderLine
\* the ANSI sequences and the symbols RenderLine writes, one element each
Reset == "ESC[0m"

Bold == "ESC[1m"

Dim == "ESC[2m"

Italic == "ESC[3m"

Red == "ESC[31m"

Green == "ESC[32m"

Yellow == "ESC[33m"

Cyan == "ESC[36m"

BgBlack == "ESC[40m"

\* the ballot box U+2610, the checked ballot box U+2611, the bullet U+2022,
\* the vertical bar U+2502 and the horizontal bar U+2500
BoxEmpty == "U+2610"

BoxChecked == "U+2611"

Bullet == "U+2022"

QuoteBar == "U+2502"

RuleChar == "U+2500"

\* the grave accent U+0060 that delimits inline code
Backtick == "U+0060"

RECURSIVE RunOfNot(_, _, _)
\* the length of the longest run of elements other than c from position i on
RunOfNot(s, i, c) == IF i <= Len(s) /\ s[i] /= c THEN 1 + RunOfNot(s, i + 1, c) ELSE 0

\* s holds n times c from position i on
IsRun(s, i, c, n) == i + n - 1 <= Len(s) /\ \A k \in i..(i + n - 1) : s[k] = c

RECURSIVE ReplaceDelimited(_, _, _, _, _)
\* ReplaceAllString of a pattern d([^c]+)d, d being n times c, by open $1
\* Reset, from position i on: `\*\*([^*]+)\*\*` and "`([^`]+)`"
ReplaceDelimited(s, i, c, n, open) ==
  IF i > Len(s) THEN <<>>
  ELSE LET run == RunOfNot(s, i + n, c)
       IN IF IsRun(s, i, c, n) /\ run >= 1 /\ IsRun(s, i + n + run, c, n)
          THEN open \o SubSeq(s, i + n, i + n + run - 1) \o <<Reset>>
                 \o ReplaceDelimited(s, i + 2 * n + run, c, n, open)
          ELSE <<s[i]>> \o ReplaceDelimited(s, i + 1, c, n, open)

\* a match of `(?:^|[^*])\*([^*]+)\*(?:[^*]|$)` that starts at position i with
\* lead characters ahead of the first '*': the run of the group and the last
\* position of the match
ItalicAt(s, i, lead) ==
  LET star  == i + lead
      run   == RunOfNot(s, star + 1, "*")
      close == star + 1 + run
  IN [ok  |-> /\ IF lead = 0 THEN i = 1 ELSE i <= Len(s) /\ s[i] /= "*"
              /\ star <= Len(s) /\ s[star] = "*"
              /\ run >= 1
              /\ close <= Len(s) /\ s[close] = "*"
              /\ close + 1 <= Len(s) => s[close + 1] /= "*",
      from |-> star + 1,
      run  |-> run,
      end  |-> IF close + 1 <= Len(s) THEN close + 1 ELSE close]

RECURSIVE ReplaceItalic(_, _)
\* ReplaceAllString of the italic pattern by Italic $1 Reset from position i
\* on; the characters matched around the '*' are not written back
ReplaceItalic(s, i) ==
  IF i > Len(s) THEN <<>>
  ELSE LET m == IF ItalicAt(s, i, 0).ok THEN ItalicAt(s, i, 0) ELSE ItalicAt(s, i, 1)
       IN IF m.ok
          THEN <<Italic>> \o SubSeq(s, m.from, m.from + m.run - 1) \o <<Reset>>
                 \o ReplaceItalic(s, m.end + 1)
          ELSE <<s[i]>> \o ReplaceItalic(s, i + 1)

RECURSIVE DigitRun(_, _)
DigitRun(s, i) ==
  IF i <= Len(s) /\ s[i] \in {"0", "1", "2", "3", "4", "5", "6", "7", "8", "9"}
  THEN 1 + DigitRun(s, i + 1) ELSE 0

\* ReplaceAllString of `^(\s*)(\d+)\.\s` by $1 Cyan $2 "." Reset " "
ReplaceNumbered(s) ==
  LET w == LeadingSpaces(s)
      d == DigitRun(s, w + 1)
  IN IF /\ d >= 1
        /\ w + d + 2 <= Len(s)
        /\ s[w + d + 1] = "."
        /\ IsSpace(s[w + d + 2])
     THEN SubSeq(s, 1, w) \o <<Cyan>> \o SubSeq(s, w + 1, w + d) \o <<".", Reset, " ">>
            \o SubSeq(s, w + d + 3, Len(s))
     ELSE s

TrimPrefix(s, p) == IF HasPrefix(s, p) THEN SubSeq(s, Len(p) + 1, Len(s)) ELSE s

\* the checkbox markers become coloured ballot boxes, the first of each
RenderCheckbox(line) ==
  LET l1 == IF Contains(line, Unchecked)
            THEN ReplaceFirst(line, Unchecked, <<Red, BoxEmpty, Reset>>) ELSE line
  IN IF Contains(l1, Checked)
     THEN ReplaceFirst(l1, Checked, <<Green, BoxChecked, Reset>>) ELSE l1

\* a line that starts, after trimming, with "- " and holds no ballot box gets
\* a bullet in place of its first "- "
RenderBullet(line) ==
  IF /\ HasPrefix(TrimSpace(line), <<"-", " ">>)
     /\ ~Contains(line, <<BoxEmpty>>)
     /\ ~Contains(line, <<BoxChecked>>)
  THEN ReplaceFirst(line, <<"-", " ">>, <<Yellow, Bullet, " ", Reset>>) ELSE line

\* a line that starts, after trimming, with ">" is replaced by the bar and the
\* trimmed line without its "> "
RenderQuote(line) ==
  IF HasPrefix(TrimSpace(line), <<">">>)
  THEN <<Dim, QuoteBar, " ">> \o TrimPrefix(TrimSpace(line), <<">", " ">>) \o <<Reset>>
  ELSE line

\* the line is, after trimming, the horizontal-rule marker
IsRule(line) == TrimSpace(line) = <<"-", "-", "-">>

RenderRule(line, termWidth) ==
  IF IsRule(line) THEN <<Dim>> \o Repeat(RuleChar, termWidth - 4) \o <<Reset>> ELSE line

\* a line with "|" and "---" is a table separator
RenderTable(line) ==
  IF Contains(line, <<"|">>) /\ Contains(line, <<"-", "-", "-">>)
  THEN <<Dim>> \o line \o <<Reset>> ELSE line

\* RenderLine: the styling steps in the order of the code, each applied to the
\* line the step before it returned; ok is false when strings.Repeat is given
\* a negative count, which panics
RenderLine(line, termWidth) ==
  LET l8s ==
        {RenderQuote(l7) : l7 \in
          {ReplaceNumbered(l6) : l6 \in
            {RenderBullet(l5) : l5 \in
              {ReplaceDelimited(l4, 1, Backtick, 1, <<BgBlack, Cyan>>) : l4 \in
                {ReplaceItalic(l3, 1) : l3 \in
                  {ReplaceDelimited(l2, 1, "*", 2, <<Bold>>) : l2 \in
                    {RenderCheckbox(line)}}}}}}}
      l10s ==
        {IF IsRule(l8) /\ termWidth - 4 < 0
         THEN [ok |-> FALSE, line |-> <<>>]
         ELSE CHOOSE r \in {[ok |-> TRUE, line |-> RenderTable(l9)] :
                              l9 \in {RenderRule(l8, termWidth)}} : TRUE
         : l8 \in l8s}
  IN CHOOSE r \in l10s : TRUE

MaxRenderLines == 2

\* a rule, and indented lines of every kind RenderLine styles
RenderPool ==
  { <<"-", "-", "-">>,
    <<" ", " ", "-", "-", "-">>,
    <<" ", " ", ">", " ", "q">>,
    <<" ", " ", "-", " ", "a">>,
    <<" ", " ", "-", " ", "[", " ", "]", " ", "a">>,
    <<" ", " ", "*", "a", "*", " ", "b">>,
    <<"\t", "1", ".", " ", "a">>,
    <<"a">> }

\* the files "# A" followed by 1..MaxRenderLines lines of RenderPool
RenderDocuments ==
  {Join(<<<<"#", " ", "A">>>> \o d) : d \in SeqsUpTo(RenderPool, MaxRenderLines) \ {<<>>}}

\* the widths terminal.GetSize() reports
TermWidths == {0, 3, 4, 10}

InitRender ==
  /\ FileContent \in RenderDocuments
  /\ FileLines = Split(FileContent)
  /\ FileCap = Len(FileLines)
  /\ Sections = ParseSections(FileLines)
  /\ CurrentIdx = 0
  /\ FilePath = DefaultFilePath
  /\ StateFile = NoStateFile
  /\ panicked = FALSE
  /\ op = Op("init", 0, <<>>, FALSE)
  /\ ScrollOffset = NewRenderer(DefaultTermHeight).ScrollOffset
  /\ PageSize = NewRenderer(DefaultTermHeight).PageSize

\* printContent's call RenderLine(line, r.TermWidth) for content line i of the
\* current section; op keeps the width, the line, and the line returned
RenderLineCall(i, termWidth) ==
  /\ ~panicked
  /\ HasCurrent(Sections, CurrentIdx)
  /\ i < Len(Split(Sections[CurrentIdx + 1].Content))
  /\ \E line \in {Split(Sections[CurrentIdx + 1].Content)[i + 1]} :
       \E r \in {RenderLine(line, termWidth)} :
         /\ panicked' = ~r.ok
         /\ op' = OpWith("RenderLine", termWidth, line, r.ok, r.line)
  /\ UNCHANGED <<Sections, CurrentIdx, FileContent, FileLines, FileCap>>

NextRender ==
  \E i \in 0..(MaxRenderLines - 1), w \in TermWidths : RenderLineCall(i, w) /\ UNCHANGED rvars /\ UNCHANGED svars

SpecRender == InitRender /\ [][NextRender]_vars

\* C22: RenderLine returns a line for every line and every width, and for a
\* line whose trimmed form is '---' the line returned is a rule of width - 4
\* rule characters.
C22_RenderLineTotal ==
  op.name = "RenderLine" =>
    /\ op.ret /\ ~panicked
    /\ TrimSpace(op.note) = <<"-", "-", "-">> =>
         op.prev = <<Dim>> \o [k \in 1..(op.arg - 4) |-> RuleChar] \o <<Reset>>

\* C23: the line RenderLine returns starts with the run of leading spaces and
\* tabs of the line it was given.
C23_KeepsLeadingSpace ==
  (op.name = "RenderLine" /\ op.ret) =>
    LET w == LeadingSpaces(op.note)
    IN Len(op.prev) >= w /\ SubSeq(op.prev, 1, w) = SubSeq(op.note, 1, w)

\* ------------------------------------------------- the editing handlers
\* a call on the App made by a handler: the function, its integer argument,
\* its text argument and the timestamp time.Now() gives it
Call(f, arg, text, ts) == [f |-> f, arg |-> arg, text |-> text, ts |-> ts]

\* the App after one call; cur is CurrentIdx, which no call here assigns
Apply(st, cur, c) ==
  IF st.panicked THEN st
  ELSE CASE c.f = "ToggleCheckbox" ->
              IF ~HasCurrent(st.secs, cur) THEN st
              ELSE [st EXCEPT !.secs[cur + 1].Content = ToggleContent(@, c.arg).content]
         [] c.f = "AddNote" ->
              IF c.text = <<>> THEN st
              ELSE IF cur < 0 \/ cur >= Len(st.secs) THEN [st EXCEPT !.panicked = TRUE]
              ELSE [st EXCEPT !.secs[cur + 1].Content = @ \o NoteText(c.ts, c.text)]
         [] c.f = "SetContent" ->
              IF cur < 0 \/ cur >= Len(st.secs) THEN [st EXCEPT !.panicked = TRUE]
              ELSE [st EXCEPT !.secs[cur + 1].Content = c.text]
         [] c.f = "UpdateFileSection" ->
              IF c.arg < 0 \/ c.arg >= Len(st.secs) THEN st
              ELSE LET u == UpdateFileSection(st.lines, st.cap, st.secs, c.arg)
                   IN [st EXCEPT !.lines = u.lines, !.cap = u.cap, !.content = Join(u.lines)]
         [] c.f = "ParseSections" -> [st EXCEPT !.secs = ParseSections(st.lines)]
         [] c.f = "SaveFile" -> [st EXCEPT !.content = SaveFile(st.lines)]

RECURSIVE Run(_, _, _)
\* the App after the calls, made in their order
Run(st, cur, calls) ==
  IF calls = <<>> THEN st
  ELSE CHOOSE r \in {Run(next, cur, Tail(calls)) : next \in {Apply(st, cur, calls[1])}} : TRUE

\* handleToggle with the number typed: nothing without checkbox lines or for
\* a number out of range; the flush follows a ToggleCheckbox that returned true
handleToggleCalls(secs, cur, num) ==
  LET checkboxLines == GetCheckboxLines(secs, cur)
  IN IF num < 1 \/ num > Len(checkboxLines) THEN <<>>
     ELSE <<Call("ToggleCheckbox", checkboxLines[num], <<>>, <<>>)>>
          \o (IF ToggleContent(secs[cur + 1].Content, checkboxLines[num]).ok
              THEN <<Call("UpdateFileSection", cur, <<>>, <<>>),
                     Call("ParseSections", 0, <<>>, <<>>),
                     Call("SaveFile", 0, <<>>, <<>>)>>
              ELSE <<>>)

\* saveNote without its ParseSections
saveNoteCallsNoParse(cur, note, ts) ==
  <<Call("AddNote", 0, note, ts),
    Call("UpdateFileSection", cur, <<>>, <<>>),
    Call("SaveFile", 0, <<>>, <<>>)>>

saveNoteCalls(cur, note, ts) ==
  <<Call("AddNote", 0, note, ts),
    Call("UpdateFileSection", cur, <<>>, <<>>),
    Call("ParseSections", 0, <<>>, <<>>),
    Call("SaveFile", 0, <<>>, <<>>)>>

\* editNote with the number n typed and newNote left in the editor
editNoteCalls(secs, cur, n, newNote, ts) ==
  LET notes == extractNotes(secs[cur + 1].Content)
  IN IF n < 1 \/ n > Len(notes) \/ TrimSpace(newNote) = <<>> THEN <<>>
     ELSE <<Call("SetContent", 0, removeNoteFromContent(secs[cur + 1].Content, notes[n]), <<>>),
            Call("AddNote", 0, TrimSpace(newNote), ts),
            Call("UpdateFileSection", cur, <<>>, <<>>),
            Call("ParseSections", 0, <<>>, <<>>),
            Call("SaveFile", 0, <<>>, <<>>)>>

\* deleteNote with the number n typed and the deletion confirmed
deleteNoteCalls(secs, cur, n) ==
  LET notes == extractNotes(secs[cur + 1].Content)
  IN IF n < 1 \/ n > Len(notes) THEN <<>>
     ELSE <<Call("SetContent", 0, removeNoteFromContent(secs[cur + 1].Content, notes[n]), <<>>),
            Call("UpdateFileSection", cur, <<>>, <<>>),
            Call("ParseSections", 0, <<>>, <<>>),
            Call("SaveFile", 0, <<>>, <<>>)>>

RECURSIVE CleanFrom(_, _, _, _)
\* the loop of cleanAllNotes from 1-based line i on
CleanFrom(lines, i, result, inNote) ==
  IF i > Len(lines) THEN result
  ELSE LET line    == lines[i]
           trimmed == TrimSpace(line)
       IN IF HasPrefix(trimmed, NoteLabel)
          THEN CleanFrom(lines, i + 1, result, TRUE)
          ELSE IF inNote /\ (HasPrefix(trimmed, <<">">>) \/ trimmed = <<>>)
          THEN CleanFrom(lines, i + 1, result, TRUE)
          ELSE CleanFrom(lines, i + 1, Append(result, line), FALSE)

\* cleanAllNotes, confirmed
cleanAllNotesCalls(secs, cur) ==
  <<Call("SetContent", 0,
         TrimSpace(Join(CleanFrom(Split(secs[cur + 1].Content), 1, <<>>, FALSE))), <<>>),
    Call("UpdateFileSection", cur, <<>>, <<>>),
    Call("ParseSections", 0, <<>>, <<>>),
    Call("SaveFile", 0, <<>>, <<>>)>>

\* a handler that makes the calls; op.prev keeps the functions called
Handle(name, arg, calls) ==
  /\ \E s \in {Run([secs |-> Sections, lines |-> FileLines, cap |-> FileCap,
                    content |-> FileContent, panicked |-> FALSE], CurrentIdx, calls)} :
       /\ Len(s.lines) <= MaxFileLines
       /\ NotesIn(s.secs) <= MaxNotes
       /\ Sections' = s.secs
       /\ FileLines' = s.lines
       /\ FileCap' = s.cap
       /\ FileContent' = s.content
       /\ panicked' = s.panicked
  /\ op' = OpWith(name, arg, <<>>, TRUE, [k \in 1..Len(calls) |-> calls[k].f])
  /\ UNCHANGED CurrentIdx

\* 'x': handleToggle
handleToggle(num) ==
  /\ ~panicked
  /\ \E calls \in {handleToggleCalls(Sections, CurrentIdx, num)} :
       Handle("handleToggle", num, calls)

\* handleNote reads sec.Content of GetCurrentSection(), which is nil without
\* a current section
NoteMenu(name, arg, calls) ==
  /\ ~panicked
  /\ IF ~HasCurrent(Sections, CurrentIdx)
     THEN /\ panicked' = TRUE
          /\ op' = OpWith("handleNote", 0, <<>>, TRUE, <<>>)
          /\ UNCHANGED <<Sections, CurrentIdx, FileContent, FileLines, FileCap>>
     ELSE Handle(name, arg, calls)

\* 'a', then a: addNewNote ends in saveNote(note)
addNewNote(note, ts) ==
  \E calls \in {saveNoteCalls(CurrentIdx, note, ts)} : NoteMenu("saveNote", 0, calls)

\* 'a', then e, d or c, which the menu offers when the section holds a note
editNote(n, newNote, ts) ==
  /\ HasCurrent(Sections, CurrentIdx) => Len(extractNotes(CurContent)) > 0
  /\ \E calls \in {IF HasCurrent(Sections, CurrentIdx)
                   THEN editNoteCalls(Sections, CurrentIdx, n, newNote, ts) ELSE <<>>} :
       NoteMenu("editNote", n, calls)

deleteNote(n) ==
  /\ HasCurrent(Sections, CurrentIdx) => Len(extractNotes(CurContent)) > 0
  /\ \E calls \in {IF HasCurrent(Sections, CurrentIdx)
                   THEN deleteNoteCalls(Sections, CurrentIdx, n) ELSE <<>>} :
       NoteMenu("deleteNote", n, calls)

cleanAllNotes ==
  /\ HasCurrent(Sections, CurrentIdx) => Len(extractNotes(CurContent)) > 0
  /\ \E calls \in {IF HasCurrent(Sections, CurrentIdx)
                   THEN cleanAllNotesCalls(Sections, CurrentIdx) ELSE <<>>} :
       NoteMenu("cleanAllNotes", 0, calls)

EditedNotes == {<<"m">>, <<" ">>}

\* the keys n, p, x and a of the main loop, with the choices of the note menu
NextEdit ==
  \/ NextSection /\ UNCHANGED rvars /\ UNCHANGED svars
  \/ PrevSection /\ UNCHANGED rvars /\ UNCHANGED svars
  \/ \E num \in 0..2 : handleToggle(num) /\ UNCHANGED rvars /\ UNCHANGED svars
  \/ \E note \in NoteTexts, ts \in Timestamps : addNewNote(note, ts) /\ UNCHANGED rvars /\ UNCHANGED svars
  \/ \E n \in 0..2, newNote \in EditedNotes, ts \in Timestamps :
       editNote(n, newNote, ts) /\ UNCHANGED rvars /\ UNCHANGED svars
  \/ \E n \in 0..2 : deleteNote(n) /\ UNCHANGED rvars /\ UNCHANGED svars
  \/ cleanAllNotes /\ UNCHANGED rvars /\ UNCHANGED svars

SpecEdit == Init /\ [][NextEdit]_vars

\* in the list of functions called, ParseSections follows each
\* UpdateFileSection directly
ParseFollowsUpdate(calls) ==
  \A k \in 1..Len(calls) :
    calls[k] = "UpdateFileSection" => k < Len(calls) /\ calls[k + 1] = "ParseSections"

\* C24: every handler of the session starts with Section.Line values that a
\* parse of the current FileLines gives, and in every handler each
\* UpdateFileSection is directly followed by ParseSections, so that no two
\* UpdateFileSection calls occur without a ParseSections between them.
C24_ParseAfterUpdate ==
  /\ [](LinesFresh)
  /\ [][op'.name \in {"handleToggle", "saveNote", "editNote", "deleteNote", "cleanAllNotes"}
          => ParseFollowsUpdate(op'.prev)]_vars

\* saveNote has moved the header of the section behind the current one
C24_Witness ==
  /\ op.name = "saveNote"
  /\ "UpdateFileSection" \in {op.prev[k] : k \in 1..Len(op.prev)}
  /\ Len(Sections) = 2 /\ CurrentIdx = 0
  /\ Sections[2].Line > 1

\* ------------------------------------------------------ state persistence
Digits == <<"0", "1", "2", "3", "4", "5", "6", "7", "8", "9">>

RECURSIVE Itoa(_)
\* the %d of fmt.Sprintf
Itoa(n) ==
  IF n < 0 THEN <<"-">> \o Itoa(-n)
  ELSE IF n < 10 THEN <<Digits[n + 1]>>
  ELSE Itoa(n \div 10) \o <<Digits[(n % 10) + 1]>>

RECURSIVE DigitsValue(_, _)
\* the number the decimal digits of s denote, after the digits that gave acc
DigitsValue(s, acc) ==
  IF s = <<>> THEN acc
  ELSE DigitsValue(Tail(s), 10 * acc + (CHOOSE d \in 0..9 : Digits[d + 1] = s[1]))

\* Atoi that takes decimal digits only and no sign
AtoiDigitsOnly(s) ==
  LET ok == s /= <<>> /\ \A k \in 1..Len(s) : s[k] \in {Digits[d] : d \in 1..10}
  IN IF ~ok THEN [ok |-> FALSE, value |-> 0]
     ELSE [ok |-> TRUE, value |-> DigitsValue(s, 0)]

\* strconv.Atoi: an optional sign and one or more decimal digits
Atoi(s) ==
  LET signed == s /= <<>> /\ s[1] \in {"+", "-"}
      body   == IF signed THEN Tail(s) ELSE s
      ok     == body /= <<>> /\ \A k \in 1..Len(body) : body[k] \in {Digits[d] : d \in 1..10}
  IN IF ~ok THEN [ok |-> FALSE, value |-> 0]
     ELSE [ok |-> TRUE,
           value |-> IF signed /\ s[1] = "-" THEN -DigitsValue(body, 0)
                     ELSE DigitsValue(body, 0)]

KeySection == <<"c", "u", "r", "r", "e", "n", "t", "_", "s", "e", "c", "t", "i", "o", "n">>

KeyPageSize == <<"p", "a", "g", "e", "_", "s", "i", "z", "e">>

KeyFilePath == <<"f", "i", "l", "e", "_", "p", "a", "t", "h">>

\* the text SaveState writes
StateText(currentIdx, pageSize, filePath) ==
  KeySection \o <<"=">> \o Itoa(currentIdx) \o <<NL>>
    \o KeyPageSize \o <<"=">> \o Itoa(pageSize) \o <<NL>>
    \o KeyFilePath \o <<"=">> \o filePath \o <<NL>>

RECURSIVE LoadFrom(_, _, _)
\* the loop of LoadState from 1-based line i on; r holds pageSize and the
\* fields CurrentIdx and FilePath of the App
LoadFrom(lines, i, r) ==
  IF i > Len(lines) THEN r
  ELSE LET line  == lines[i]
           eq    == IndexOf(line, <<"=">>)
           key   == SubSeq(line, 1, eq - 1)
           value == SubSeq(line, eq + 1, Len(line))
           next  ==
             IF eq = 0 THEN r
             ELSE IF key = KeySection
             THEN IF Atoi(value).ok THEN [r EXCEPT !.CurrentIdx = Atoi(value).value] ELSE r
             ELSE IF key = KeyPageSize
             THEN IF Atoi(value).ok THEN [r EXCEPT !.pageSize = Atoi(value).value] ELSE r
             ELSE IF key = KeyFilePath
             THEN IF r.FilePath = DefaultFilePath /\ value /= <<>>
                  THEN [r EXCEPT !.FilePath = value] ELSE r
             ELSE r
       IN CHOOSE x \in {LoadFrom(lines, i + 1, n) : n \in {next}} : TRUE

\* LoadState on an App with the fields currentIdx and filePath: err, the page
\* size returned, and the fields afterwards
LoadState(file, currentIdx, filePath) ==
  IF ~file.found
  THEN [err |-> TRUE, pageSize |-> 0, CurrentIdx |-> currentIdx, FilePath |-> filePath]
  ELSE LoadFrom(Split(file.data), 1,
                [err |-> FALSE, pageSize |-> 0, CurrentIdx |-> currentIdx,
                 FilePath |-> filePath])

\* the page sizes SaveState is given
SavedSizes == {-3, 0, 5, 30}

\* paths typed at the prompt of handleFileNotFound
TypedPaths == {<<"f">>, <<"a", "=", "b">>}

\* state files left by an editor or by another version of the program
ForeignStateFiles ==
  { <<>>,
    KeySection \o <<"=", "1", "2", NL>> \o KeyPageSize \o <<"=", "8">>,
    KeySection \o <<"=", "-", "1", NL>> \o KeyFilePath \o <<"=", "g", NL>>,
    KeySection \o <<"=", "x", NL>> \o KeyPageSize \o <<"=", NL>> \o KeyFilePath \o <<"=">>,
    KeyPageSize \o <<" ", "=", "7", NL>> \o KeySection \o <<"=", "+", "5">> }

InitState ==
  /\ FileContent = <<"#", " ", "A">>
  /\ FileLines = Split(FileContent)
  /\ FileCap = Len(FileLines)
  /\ Sections = ParseSections(FileLines)
  /\ CurrentIdx = 0
  /\ FilePath = DefaultFilePath
  /\ StateFile = NoStateFile
  /\ panicked = FALSE
  /\ op = Op("init", 0, <<>>, FALSE)
  /\ ScrollOffset = NewRenderer(DefaultTermHeight).ScrollOffset
  /\ PageSize = NewRenderer(DefaultTermHeight).PageSize

\* SaveState(pageSize): os.WriteFile writes the text, or fails and returns the
\* error with the file as it was
SaveStateCall(pageSize, written) ==
  /\ StateFile' = IF written
                  THEN [found |-> TRUE, data |-> StateText(CurrentIdx, pageSize, FilePath)]
                  ELSE StateFile
  /\ op' = Op("SaveState", pageSize, <<>>, written)
  /\ UNCHANGED <<avars, rvars, FilePath>>

\* LoadState(): op keeps the page size returned and whether err is nil
LoadStateCall ==
  /\ \E r \in {LoadState(StateFile, CurrentIdx, FilePath)} :
       /\ CurrentIdx' = r.CurrentIdx
       /\ FilePath' = r.FilePath
       /\ op' = Op("LoadState", r.pageSize, <<>>, ~r.err)
  /\ UNCHANGED <<Sections, FileContent, FileLines, FileCap, panicked, rvars, StateFile>>

\* a new process: NewApp, with the path typed when the default file is missing
NewApp(typed, path) ==
  /\ CurrentIdx' = 0
  /\ FilePath' = IF typed THEN path ELSE DefaultFilePath
  /\ op' = Op("NewApp", 0, <<>>, TRUE)
  /\ UNCHANGED <<Sections, FileContent, FileLines, FileCap, panicked, rvars, StateFile>>

\* the state file is written or removed outside of the program
StateFileEdited(file) ==
  /\ StateFile' = file
  /\ op' = Op("StateFileEdited", 0, <<>>, TRUE)
  /\ UNCHANGED <<avars, rvars, FilePath>>

NextState ==
  \/ \E ps \in SavedSizes, written \in BOOLEAN : SaveStateCall(ps, written)
  \/ LoadStateCall
  \/ \E typed \in BOOLEAN, path \in TypedPaths : NewApp(typed, path)
  \/ \E data \in ForeignStateFiles : StateFileEdited([found |-> TRUE, data |-> data])
  \/ StateFileEdited(NoStateFile)

SpecState == InitState /\ [][NextState]_vars

\* C25: the state file a successful SaveState(p) leaves is one from which
\* LoadState on a fresh App returns p and no error and sets CurrentIdx to
\* the CurrentIdx of the App that saved; LoadState without a state file
\* returns an error and page size 0 and keeps CurrentIdx and FilePath.
C25_StateRoundTrip ==
  /\ [][(op'.name = "SaveState" /\ op'.ret) =>
          LET r == LoadState(StateFile', 0, DefaultFilePath)
          IN ~r.err /\ r.pageSize = op'.arg /\ r.CurrentIdx = CurrentIdx]_vars
  /\ [][(op.name = "NewApp" /\ op'.name = "LoadState" /\ StateFile.found) =>
          \A c \in -1..12, ps \in SavedSizes, path \in TypedPaths \cup {DefaultFilePath} :
            StateFile.data = StateText(c, ps, path) =>
              op'.ret /\ CurrentIdx' = c /\ op'.arg = ps]_vars
  /\ [][(op'.name = "LoadState" /\ ~StateFile.found) =>
          ~op'.ret /\ op'.arg = 0 /\ UNCHANGED <<CurrentIdx, FilePath>>]_vars

\* a fresh App has loaded the state saved at section 12 with a negative page
\* size
C25_Witness ==
  /\ op.name = "LoadState" /\ op.ret
  /\ CurrentIdx = 12 /\ op.arg = -3
  /\ StateFile.data = StateText(12, -3, DefaultFilePath)

\* C26: UpdateFileSection(i) for a valid i, called when Sections is what
\* ParseSections gives for FileLines (no edit since the parse), leaves
\* FileLines unchanged, also for a section with empty content.
C26_FlattenUneditedIsIdentity ==
  [][(op'.name = "UpdateAndParse" /\ op'.ret /\ Sections = ParseSections(FileLines)) =>
       FileLines' = FileLines]_vars

\* ------------------------------------------------- the sections as a cache
\* ParseSections() that parses only when there is no section yet
ReparseIfEmpty ==
  /\ ~panicked
  /\ Sections' = IF Sections = <<>> THEN ParseSections(FileLines) ELSE Sections
  /\ op' = OpWith("ParseSections", 0, <<>>, TRUE, [i \in 1..Len(Sections) |-> Sections[i].Content])
  /\ UNCHANGED <<CurrentIdx, FileContent, FileLines, FileCap, panicked>>

\* ParseSections() called at any time; op.prev keeps the contents of the
\* sections the call replaces
Reparse ==
  /\ ~panicked
  /\ Sections' = ParseSections(FileLines)
  /\ op' = OpWith("ParseSections", 0, <<>>, TRUE, [i \in 1..Len(Sections) |-> Sections[i].Content])
  /\ UNCHANGED <<CurrentIdx, FileContent, FileLines, FileCap, panicked>>

\* edits on the sections, with and without the flush to FileLines
NextCache ==
  \/ NextSection /\ UNCHANGED rvars /\ UNCHANGED svars
  \/ \E k \in 0..1 : ToggleCheckbox(k) /\ UNCHANGED rvars /\ UNCHANGED svars
  \/ \E note \in NoteTexts, ts \in Timestamps :
       AddNote(note, ts) /\ UNCHANGED rvars /\ UNCHANGED svars
  \/ Reparse /\ UNCHANGED rvars /\ UNCHANGED svars
  \/ UpdateAndParse(CurrentIdx) /\ UNCHANGED rvars /\ UNCHANGED svars
  \/ \E note \in NoteTexts, ts \in Timestamps :
       saveNote(note, ts) /\ UNCHANGED rvars /\ UNCHANGED svars

SpecCache == Init /\ [][NextCache]_vars

\* C27: ToggleCheckbox and AddNote change no line of FileLines; ParseSections
\* sets Sections to what FileLines alone gives, so it yields the sections of
\* the parse before an edit that was not flushed; and FileContent is
\* FileLines joined by newline, in particular after UpdateFileSection and
\* SaveFile.
C27_SectionsAreACache ==
  /\ [](FileContent = Join(FileLines))
  /\ [][op'.name \in {"ToggleCheckbox", "AddNote"} => UNCHANGED <<FileLines, FileContent>>]_vars
  /\ [][op'.name = "ParseSections" =>
          /\ Sections' = ParseSections(FileLines)
          /\ UNCHANGED <<FileLines, FileContent>>
          /\ (op.name = "ParseSections" => Sections' = Sections)]_vars
  /\ [][(op.name = "ParseSections" /\ op'.name \in {"ToggleCheckbox", "AddNote"}) =>
          ParseSections(FileLines') = Sections]_vars

\* ParseSections has discarded a note that AddNote had put into the section
C27_Witness ==
  /\ op.name = "ParseSections"
  /\ Len(op.prev) = 1 /\ Len(Sections) = 1
  /\ Contains(op.prev[1], NoteLabel)
  /\ ~Contains(Sections[1].Content, NoteLabel)

\* ---------------------------------------------------------- the window
\* printContent that keeps a ScrollOffset beyond the last line
printContentNoReset(content, scrollOffset, pageSize) ==
  LET total == Len(Split(content))
  IN [ScrollOffset |-> scrollOffset,
      startIdx     |-> scrollOffset,
      endIdx       |-> Min(scrollOffset + pageSize, total),
      total        |-> total]

\* printContent: the ScrollOffset it leaves, the bounds of rendered[startIdx:
\* endIdx] and len(rendered)
printContent(content, scrollOffset, pageSize) ==
  LET total    == Len(Split(content))
      startIdx == IF scrollOffset >= total THEN 0 ELSE scrollOffset
  IN [ScrollOffset |-> startIdx,
      startIdx     |-> startIdx,
      endIdx       |-> Min(startIdx + pageSize, total),
      total        |-> total]

\* C28: Render on a current section leaves the ScrollOffset of printContent,
\* which is 0 when ScrollOffset was at or beyond the number of lines, and the
\* slice rendered[startIdx:endIdx] it shows has 0 <= startIdx < endIdx <=
\* len(rendered) with endIdx = min(startIdx + PageSize, len(rendered)).
C28_WindowInRange ==
  [][(op'.name = "Render" /\ HasCurrent(Sections, CurrentIdx)) =>
       LET w == printContent(CurContent, ScrollOffset, PageSize)
       IN /\ ScrollOffset' = w.ScrollOffset
          /\ ScrollOffset >= w.total => w.startIdx = 0
          /\ ScrollOffset < w.total => w.startIdx = ScrollOffset
          /\ 0 <= w.startIdx /\ w.startIdx < w.endIdx /\ w.endIdx <= w.total
          /\ w.endIdx = Min(w.startIdx + PageSize, w.total)]_vars

\* Render has shown the last three of twelve lines under a page of five
C28_Witness ==
  /\ op.name = "Render"
  /\ HasCurrent(Sections, CurrentIdx)
  /\ ScrollOffset = 9 /\ PageSize = 5
  /\ printContent(CurContent, ScrollOffset, PageSize).endIdx = MaxViewLines

\* C29: after the restoration of the saved state at startup, CurrentIdx is
\* an index of Sections whenever the document has a section, whatever value
\* the state file holds for current_section.
C29_StartupIndexValid ==
  [][(op'.name = "Startup" /\ Len(Sections') >= 1) =>
       (0 <= CurrentIdx' /\ CurrentIdx' < Len(Sections'))]_vars

\* C30: in a session, ScrollDown on a current section under a page of at
\* least 5 lines either returns true with a greater ScrollOffset or returns
\* false and keeps it; either way ScrollOffset is less than the number of
\* lines afterwards, so only finitely many calls in a row return true, and
\* when it returns false the window from ScrollOffset to min(ScrollOffset +
\* PageSize, number of lines) holds the last line.
C30_ScrollDownEnds ==
  [][(op'.name = "ScrollDown" /\ HasCurrent(Sections, CurrentIdx) /\ PageSize >= 5) =>
       LET totalLines == Len(Split(CurContent))
       IN /\ ScrollOffset' < totalLines
          /\ op'.ret => ScrollOffset' > ScrollOffset
          /\ ~op'.ret =>
               /\ ScrollOffset' = ScrollOffset
               /\ ScrollOffset' <= totalLines - 1
               /\ totalLines - 1 < Min(ScrollOffset' + PageSize, totalLines)]_vars

\* ScrollDown refused after three scrolls, the window ending at the last line
C30_Witness ==
  /\ op.name = "ScrollDown" /\ ~op.ret
  /\ HasCurrent(Sections, CurrentIdx)
  /\ ScrollOffset = 9 /\ PageSize = 5
  /\ Len(Split(CurContent)) = MaxViewLines

====
